---- MODULE Spec2Model ----
(***************************************************************************)
(* Verdant: the crop recommendation / space allocation / schedule          *)
(* generation pipeline of src/app.py (parse_existing_crops,                *)
(* recommend_crops, generate_schedule, as called by                        *)
(* generate_schedule_for_request).                                         *)
(*                                                                         *)
(* Python strings are sequences of one-character strings.  Python numbers  *)
(* are records [k, v]: k is "int" or "float" for a finite value v, or      *)
(* "nan", "inf", "ninf" for the special floats.  Finite floats of the      *)
(* model are integer-valued: no input of the model contains ".", "_" or    *)
(* an exponent, and none spells "-0".                                      *)
(***************************************************************************)
EXTENDS Integers, Sequences, FiniteSets, TLC

VARIABLES
    pc,                 \* position of the request in the pipeline
    existing_crops_str, \* form field "existing_crops"
    garden_size,        \* form field "garden_size", after float()
    num_people,         \* ProduceRequest.num_people
    volume_goal,        \* ProduceRequest.volume_goal
    calorie_goal,       \* ProduceRequest.calorie_goal
    additional_needs,   \* ProduceRequest.additional_needs
    lat,                \* form field "latitude", after float()
    lon,                \* form field "longitude", after float()
    api_key,            \* form field "api_key" (None when absent)
    existing_crops,     \* result of parse_existing_crops
    free_space,         \* max(0, garden_size - used_space)
    recommended,        \* recommend_crops: the candidate list
    idx,                \* recommend_crops: candidates scanned so far
    space_left,         \* recommend_crops: remaining space
    final_crops,        \* recommend_crops: accepted crops
    schedule,           \* result of generate_schedule
    forecast,           \* generate_schedule: the call of get_weather_forecast
    diagram,            \* result of generate_planting_diagram
    runs,               \* requests the server process has received
    ref                 \* the first completed request: inputs, forecast, results

vars == <<pc, existing_crops_str, garden_size, num_people, volume_goal,
          calorie_goal, additional_needs, lat, lon, api_key, existing_crops,
          free_space, recommended, idx, space_left, final_crops, schedule,
          forecast, diagram, runs, ref>>

server == <<runs, ref>>

inputs == <<existing_crops_str, garden_size, num_people, volume_goal,
            calorie_goal, additional_needs, lat, lon, api_key>>

-----------------------------------------------------------------------------
(* Bounds of the model *)

\* longest existing-crops string enumerated character by character
MaxStrLen == 6

\* garden sizes 0..MaxGarden are enumerated (plus the sizes of BigGardens)
MaxGarden == 14

\* requests one server process handles in a row
MaxRuns == 3

-----------------------------------------------------------------------------
(* Python numbers *)

PyInt(n) == [k |-> "int", v |-> n]

PyFloat(n) == [k |-> "float", v |-> n]

NaN == [k |-> "nan", v |-> 0]

PosInf == [k |-> "inf", v |-> 0]

NegInf == [k |-> "ninf", v |-> 0]

IsFin(x) == x.k \in {"int", "float"}

FNeg(x) ==
    IF IsFin(x) THEN [k |-> x.k, v |-> 0 - x.v]
    ELSE IF x.k = "inf" THEN NegInf
    ELSE IF x.k = "ninf" THEN PosInf
    ELSE NaN

FAdd(a, b) ==
    IF a.k = "nan" \/ b.k = "nan" THEN NaN
    ELSE IF a.k = "inf" THEN (IF b.k = "ninf" THEN NaN ELSE PosInf)
    ELSE IF a.k = "ninf" THEN (IF b.k = "inf" THEN NaN ELSE NegInf)
    ELSE IF b.k \in {"inf", "ninf"} THEN b
    ELSE [k |-> IF a.k = "int" /\ b.k = "int" THEN "int" ELSE "float",
          v |-> a.v + b.v]

FSub(a, b) == FAdd(a, FNeg(b))

\* a < b; every comparison with nan is False
FLt(a, b) ==
    /\ a.k # "nan"
    /\ b.k # "nan"
    /\ \/ a.k = "ninf" /\ b.k # "ninf"
       \/ b.k = "inf" /\ a.k # "inf"
       \/ IsFin(a) /\ IsFin(b) /\ a.v < b.v

FGt(a, b) == FLt(b, a)

\* a <= b
FLe(a, b) ==
    /\ a.k # "nan"
    /\ b.k # "nan"
    /\ \/ FLt(a, b)
       \/ IsFin(a) /\ IsFin(b) /\ a.v = b.v
       \/ a.k = b.k /\ ~IsFin(a)

\* max(a, b) of two arguments: b replaces a only when b > a
PyMax(a, b) == IF FGt(b, a) THEN b ELSE a

-----------------------------------------------------------------------------
(* Python strings *)

Whitespace == {" ", "\t", "\n"}

UpperCase == <<"A","B","C","D","E","F","G","H","I","J","K","L","M","N","O","P","Q","R","S","T","U","V","W","X","Y","Z">>

LowerCase == <<"a","b","c","d","e","f","g","h","i","j","k","l","m","n","o","p","q","r","s","t","u","v","w","x","y","z">>

Digits == <<"0","1","2","3","4","5","6","7","8","9">>

SetMin(S) == CHOOSE x \in S : \A y \in S : x <= y

SetMax(S) == CHOOSE x \in S : \A y \in S : x >= y

\* str.strip()
Strip(s) ==
    LET keep == {i \in 1..Len(s) : s[i] \notin Whitespace}
    IN  IF keep = {} THEN <<>> ELSE SubSeq(s, SetMin(keep), SetMax(keep))

\* str.split(sep) for a one-character separator
RECURSIVE Split(_, _)
Split(s, sep) ==
    LET at == {i \in 1..Len(s) : s[i] = sep}
    IN  IF at = {} THEN <<s>>
        ELSE <<SubSeq(s, 1, SetMin(at) - 1)>>
             \o Split(SubSeq(s, SetMin(at) + 1, Len(s)), sep)

LowerChar(c) ==
    IF \E i \in 1..26 : UpperCase[i] = c
    THEN LowerCase[CHOOSE i \in 1..26 : UpperCase[i] = c]
    ELSE c

\* str.lower()
Lower(s) == [i \in 1..Len(s) |-> LowerChar(s[i])]

\* needle in hay
Contains(hay, needle) ==
    \E i \in 0..(Len(hay) - Len(needle)) :
        SubSeq(hay, i + 1, i + Len(needle)) = needle

NoneVal == [none |-> TRUE, s |-> <<>>]

Str(s) == [none |-> FALSE, s |-> s]

\* bool(x) of an optional string
StrTruthy(x) == ~x.none /\ x.s # <<>>

IsDigit(c) == \E i \in 1..10 : Digits[i] = c

DigitVal(c) == (CHOOSE i \in 1..10 : Digits[i] = c) - 1

RECURSIVE DigitsVal(_)
DigitsVal(s) ==
    IF s = <<>> THEN 0
    ELSE 10 * DigitsVal(SubSeq(s, 1, Len(s) - 1)) + DigitVal(s[Len(s)])

RECURSIVE IntToStr(_)
\* str(n) of an int
IntToStr(n) ==
    IF n < 0 THEN <<"-">> \o IntToStr(0 - n)
    ELSE IF n < 10 THEN <<Digits[n + 1]>>
    ELSE IntToStr(n \div 10) \o <<Digits[(n % 10) + 1]>>

\* str(x) / format(x) of a number
NumToStr(x) ==
    IF x.k = "int" THEN IntToStr(x.v)
    ELSE IF x.k = "float" THEN IntToStr(x.v) \o <<".", "0">>
    ELSE IF x.k = "nan" THEN <<"n", "a", "n">>
    ELSE IF x.k = "inf" THEN <<"i", "n", "f">>
    ELSE <<"-", "i", "n", "f">>

\* float(s): [ok |-> FALSE] stands for ValueError
float(s) ==
    LET t == Strip(s)
        signed == t # <<>> /\ t[1] \in {"+", "-"}
        neg == signed /\ t[1] = "-"
        body == IF signed THEN SubSeq(t, 2, Len(t)) ELSE t
        word == Lower(body)
    IN  IF body # <<>> /\ \A i \in 1..Len(body) : IsDigit(body[i])
        THEN [ok |-> TRUE,
              val |-> PyFloat(IF neg THEN 0 - DigitsVal(body) ELSE DigitsVal(body))]
        ELSE IF word = <<"n", "a", "n">>
        THEN [ok |-> TRUE, val |-> NaN]
        ELSE IF word \in {<<"i", "n", "f">>, <<"i", "n", "f", "i", "n", "i", "t", "y">>}
        THEN [ok |-> TRUE, val |-> IF neg THEN NegInf ELSE PosInf]
        ELSE [ok |-> FALSE, val |-> NaN]

-----------------------------------------------------------------------------
(* parse_existing_crops *)

\* the except branch zeroes one field instead of both
ParseEntry_keepvalid(parts) ==
    LET space == float(Strip(parts[2]))
        weeks == float(Strip(parts[3]))
    IN  [name |-> Strip(parts[1]),
         space |-> IF space.ok THEN space.val ELSE PyInt(0),
         weeks_grown |-> IF weeks.ok THEN weeks.val ELSE PyInt(0)]

\* one 3-field item: the try/except and the appended dict
ParseEntry(parts) ==
    LET space == float(Strip(parts[2]))
        weeks == float(Strip(parts[3]))
    IN  IF space.ok /\ weeks.ok
        THEN [name |-> Strip(parts[1]), space |-> space.val,
              weeks_grown |-> weeks.val]
        ELSE [name |-> Strip(parts[1]), space |-> PyInt(0),
              weeks_grown |-> PyInt(0)]

\* the field-count test accepts items of at least 3 fields
ParseItem_atleast3(item) ==
    LET parts == Split(item, ":")
    IN  IF Len(parts) >= 3 THEN <<ParseEntry(parts)>> ELSE <<>>

\* one item of the ';' list: appended if it has exactly 3 fields
ParseItem(item) ==
    LET parts == Split(item, ":")
    IN  IF Len(parts) = 3 THEN <<ParseEntry(parts)>> ELSE <<>>

RECURSIVE ParseItems(_)
\* the for loop over items
ParseItems(items) ==
    IF items = <<>> THEN <<>>
    ELSE ParseItem(Head(items)) \o ParseItems(Tail(items))

parse_existing_crops(s) ==
    IF Strip(s) = <<>> THEN <<>>
    ELSE ParseItems(Split(s, ";"))

-----------------------------------------------------------------------------
(* recommend_crops *)

Potatoes == <<"P","o","t","a","t","o","e","s">>

Corn == <<"C","o","r","n">>

Zucchini == <<"Z","u","c","c","h","i","n","i">>

Tomatoes == <<"T","o","m","a","t","o","e","s">>

BellPeppers == <<"B","e","l","l"," ","P","e","p","p","e","r","s">>

Lettuce == <<"L","e","t","t","u","c","e">>

Kale == <<"K","a","l","e">>

Carrots == <<"C","a","r","r","o","t","s">>

Onions == <<"O","n","i","o","n","s">>

LeafyGreens == <<"l","e","a","f","y"," ","g","r","e","e","n","s">>

\* crop_space_requirements.get(crop, 5)
crop_space_requirements(crop) ==
    CASE crop = Potatoes -> 10
      [] crop = Corn -> 12
      [] crop = Zucchini -> 8
      [] crop = Tomatoes -> 6
      [] crop = BellPeppers -> 6
      [] crop = Lettuce -> 4
      [] crop = Kale -> 4
      [] crop = Carrots -> 5
      [] crop = Onions -> 5
      [] OTHER -> 5

\* the calorie threshold is inclusive
RuleCalorie_ge(calorie) ==
    IF FLe(PyInt(2000), calorie) THEN <<Potatoes, Corn>> ELSE <<>>

\* if calorie_goal > 2000
RuleCalorie(calorie) ==
    IF FGt(calorie, PyInt(2000)) THEN <<Potatoes, Corn>> ELSE <<>>

\* if volume_goal > 10
RuleVolume(volume) ==
    IF FGt(volume, PyInt(10)) THEN <<Zucchini, Tomatoes, BellPeppers>> ELSE <<>>

\* if "leafy greens" in additional_needs.lower()
RuleNeeds(needs) ==
    IF Contains(Lower(needs), LeafyGreens) THEN <<Lettuce, Kale>> ELSE <<>>

\* the default crops are added whether or not a rule fired
Candidates_defaultalways(people, volume, calorie, needs) ==
    RuleCalorie(calorie) \o RuleVolume(volume) \o RuleNeeds(needs)
    \o <<Tomatoes, Carrots, Onions>>

\* the candidate list `recommended` before packing
Candidates(people, volume, calorie, needs) ==
    LET fired == RuleCalorie(calorie) \o RuleVolume(volume) \o RuleNeeds(needs)
    IN  IF fired = <<>> THEN <<Tomatoes, Carrots, Onions>> ELSE fired

\* every candidate is accepted
Fits_always(req, left) == TRUE

\* the fit test is strict
Fits_strict(req, left) == FLt(req, left)

\* if req <= space_left
Fits(req, left) == FLe(req, left)

\* used_space is not subtracted
FreeSpace_ignoreused(size, crops) == PyMax(PyInt(0), size)

RECURSIVE SumSpace(_)
\* sum(ec["space"] for ec in existing_crops)
SumSpace(crops) ==
    IF crops = <<>> THEN PyInt(0)
    ELSE FAdd(SumSpace(SubSeq(crops, 1, Len(crops) - 1)), crops[Len(crops)].space)

\* free_space = max(0, garden_size - used_space)
FreeSpace(size, crops) == PyMax(PyInt(0), FSub(size, SumSpace(crops)))

-----------------------------------------------------------------------------
(* Dates: a pandas Timestamp at midnight is the number of days since       *)
(* 1970-01-01 (proleptic Gregorian calendar)                               *)

\* Timestamp("y-m-d")
DaysFromCivil(y, m, d) ==
    LET yy == IF m <= 2 THEN y - 1 ELSE y
        era == yy \div 400
        yoe == yy - era * 400
        mp == IF m > 2 THEN m - 3 ELSE m + 9
        doy == (153 * mp + 2) \div 5 + d - 1
        doe == yoe * 365 + yoe \div 4 - yoe \div 100 + doy
    IN  era * 146097 + doe - 719468

\* Timestamp.date()
CivilFromDays(z) ==
    LET zz == z + 719468
        era == zz \div 146097
        doe == zz - era * 146097
        yoe == (doe - doe \div 1460 + doe \div 36524 - doe \div 146096) \div 365
        doy == doe - (365 * yoe + yoe \div 4 - yoe \div 100)
        mp == (5 * doy + 2) \div 153
        d == doy - (153 * mp + 2) \div 5 + 1
        m == IF mp < 10 THEN mp + 3 ELSE mp - 9
        y == yoe + era * 400
    IN  [y |-> IF m <= 2 THEN y + 1 ELSE y, m |-> m, d |-> d]

RECURSIVE ZeroPad(_, _)
ZeroPad(s, width) == IF Len(s) >= width THEN s ELSE ZeroPad(<<"0">> \o s, width)

\* str(date): YYYY-MM-DD
DateStr(z) ==
    LET c == CivilFromDays(z)
    IN  ZeroPad(IntToStr(c.y), 4) \o <<"-">> \o ZeroPad(IntToStr(c.m), 2)
        \o <<"-">> \o ZeroPad(IntToStr(c.d), 2)

-----------------------------------------------------------------------------
(* get_weather_forecast: the HTTP response is [ok, daily]; ok = FALSE is a   *)
(* failed request or a body without "daily"                                 *)

\* one record of the forecast list (timestamps read in UTC)
ForecastDay(day) ==
    [date |-> DateStr(day.dt \div 86400), temp |-> day.temp,
     weather |-> day.description]

get_weather_forecast(response) ==
    IF ~response.ok THEN [raised |-> TRUE, value |-> <<>>]
    ELSE [raised |-> FALSE,
          value |-> [i \in 1..Len(response.daily) |-> ForecastDay(response.daily[i])]]

-----------------------------------------------------------------------------
(* generate_schedule *)

SuffixExisting == <<" ","(","e","x","i","s","t","i","n","g",")">>

SuffixNew == <<" ","(","n","e","w",")">>

WeeksAgo == <<" ","w","e","e","k","s"," ","a","g","o">>

ReadyInAbout == <<"R","e","a","d","y"," ","i","n"," ","a","b","o","u","t"," ">>

MoreWeeks == <<" ","m","o","r","e"," ","w","e","e","k","s">>

HarvestAround == <<"E","s","t","i","m","a","t","e","d"," ","h","a","r","v","e","s","t"," ","a","r","o","u","n","d"," ">>

ForecastPrefix == <<"F","o","r","e","c","a","s","t",":"," ">>

\* the floor at 0 is missing
WeeksLeft_nofloor(weeks_done) == FSub(PyInt(12), weeks_done)

\* weeks_left = max(0, total_cycle - weeks_done), total_cycle = 12
WeeksLeft(weeks_done) == PyMax(PyInt(0), FSub(PyInt(12), weeks_done))

\* int(x) raises ValueError for nan and OverflowError for an infinity
IntRaises(x) == ~IsFin(x)

\* the schedule entry of one existing crop
ExistingEntry(ecrop) ==
    [crop |-> ecrop.name \o SuffixExisting,
     planting_date |-> <<"~">> \o IntToStr(ecrop.weeks_grown.v) \o WeeksAgo,
     watering_instructions |-> "Continue watering as normal.",
     weeding_instructions |-> "Weed weekly.",
     harvest_info |-> ReadyInAbout \o NumToStr(WeeksLeft(ecrop.weeks_grown))
                      \o MoreWeeks,
     weather_note |-> <<>>]

\* base_planting_date = pd.Timestamp("2025-03-01")
base_planting_date == DaysFromCivil(2025, 3, 1)

\* new crops are planted one day apart
PlantDate_days(i) == base_planting_date + i

\* plant_date = base_planting_date + pd.Timedelta(weeks=i)
PlantDate(i) == base_planting_date + 7 * i

\* harvest_date = plant_date + pd.Timedelta(weeks=10)
HarvestDate(plant_date) == plant_date + 7 * 10

\* the schedule entry of the new crop at index i (0-based)
NewEntry(i, crop) ==
    [crop |-> crop \o SuffixNew,
     planting_date |-> DateStr(PlantDate(i)),
     watering_instructions |-> "Water 1 inch/week (adjust if rainy).",
     weeding_instructions |-> "Weed once/week.",
     harvest_info |-> HarvestAround \o DateStr(HarvestDate(PlantDate(i))),
     weather_note |-> <<>>]

\* new crops are scheduled before the existing ones
BuildSchedule_newfirst(crops, rec) ==
    [j \in 1..Len(rec) |-> NewEntry(j - 1, rec[j])]
    \o [i \in 1..Len(crops) |-> ExistingEntry(crops[i])]

\* the two loops: existing crops, then new crops
BuildSchedule(crops, rec) ==
    [i \in 1..Len(crops) |-> ExistingEntry(crops[i])]
    \o [j \in 1..Len(rec) |-> NewEntry(j - 1, rec[j])]

\* forecast_dict[date]: the last record of that date
ForecastFor(days, date) ==
    days[SetMax({i \in 1..Len(days) : days[i].date = date})]

\* every entry is annotated as soon as there is a forecast
Annotate_any(entries, days) ==
    [n \in 1..Len(entries) |->
        IF days # <<>>
        THEN [entries[n] EXCEPT !.weather_note =
                 ForecastPrefix \o days[Len(days)].weather]
        ELSE entries[n]]

\* the loop that sets weather_note
Annotate(entries, days) ==
    [n \in 1..Len(entries) |->
        IF \E i \in 1..Len(days) : days[i].date = entries[n].planting_date
        THEN [entries[n] EXCEPT !.weather_note =
                 ForecastPrefix \o ForecastFor(days, entries[n].planting_date).weather]
        ELSE entries[n]]

NotNone(x) == x.k # "none"

\* get_weather_forecast was not called
NoForecast == [called |-> FALSE, raised |-> FALSE, value |-> <<>>]

\* the result, or raised = TRUE for an exception, with the call of
\* get_weather_forecast that was made; `response` is what the weather service
\* answers if it is asked
generate_schedule(crops, rec, latitude, longitude, key, response) ==
    IF \E i \in 1..Len(crops) : IntRaises(crops[i].weeks_grown)
    THEN [raised |-> TRUE, value |-> <<>>, forecast |-> NoForecast]
    ELSE IF StrTruthy(key) /\ NotNone(latitude) /\ NotNone(longitude)
    THEN LET fc == get_weather_forecast(response)
             call == [called |-> TRUE, raised |-> fc.raised, value |-> fc.value]
         IN  IF fc.raised THEN [raised |-> TRUE, value |-> <<>>, forecast |-> call]
             ELSE [raised |-> FALSE,
                   value |-> Annotate(BuildSchedule(crops, rec), fc.value),
                   forecast |-> call]
    ELSE [raised |-> FALSE, value |-> BuildSchedule(crops, rec),
          forecast |-> NoForecast]

-----------------------------------------------------------------------------
(* generate_planting_diagram *)

DiagramTitle == <<"G","a","r","d","e","n"," ","L","a","y","o","u","t"," ","D","i","a","g","r","a","m">>

TotalGardenSize == <<"T","o","t","a","l"," ","g","a","r","d","e","n"," ","s","i","z","e",":"," ">>

SqFt == <<" ","s","q"," ","f","t">>

ExistingCropsHeading == <<"E","x","i","s","t","i","n","g"," ","C","r","o","p","s",":">>

RowPrefix == <<" "," ","R","o","w"," ">>

RowExisting == <<" ","(","e","x","i","s","t","i","n","g",")",":"," ">>

Occupying == <<" ","o","c","c","u","p","y","i","n","g"," ">>

NewCropsHeading == <<"N","e","w"," ","C","r","o","p","s",":">>

RowNew == <<" ","(","n","e","w",")",":"," ">>

NoSpaceLeft == <<"N","o"," ","s","p","a","c","e"," ","l","e","f","t"," ","f","o","r"," ","n","e","w"," ","c","r","o","p","s",".">>

RECURSIVE Flatten(_)
\* the concatenation of a sequence of strings
Flatten(ss) == IF ss = <<>> THEN <<>> ELSE Head(ss) \o Flatten(Tail(ss))

\* the line of the existing crop that gets row_number
ExistingRow(row_number, ecrop) ==
    RowPrefix \o IntToStr(row_number) \o RowExisting \o ecrop.name \o Occupying
    \o NumToStr(ecrop.space) \o SqFt \o <<"\n">>

\* the line of the new crop that gets row_number
NewRow(row_number, crop) ==
    RowPrefix \o IntToStr(row_number) \o RowNew \o crop \o <<"\n">>

\* the numbering starts again at 1 for the new crops
NewRowNumber_restart(existing, j) == j

\* row_number when the j-th new crop is reached, after `existing` rows
NewRowNumber(existing, j) == existing + j

generate_planting_diagram(crops, rec, size) ==
    DiagramTitle \o <<"\n", "\n">>
    \o TotalGardenSize \o NumToStr(size) \o SqFt \o <<"\n", "\n">>
    \o ExistingCropsHeading \o <<"\n">>
    \o Flatten([i \in 1..Len(crops) |-> ExistingRow(i, crops[i])])
    \o (IF rec # <<>>
        THEN <<"\n">> \o NewCropsHeading \o <<"\n">>
             \o Flatten([j \in 1..Len(rec) |->
                            NewRow(NewRowNumber(Len(crops), j), rec[j])])
        ELSE <<"\n">> \o NoSpaceLeft \o <<"\n">>)

-----------------------------------------------------------------------------
(* The request *)

\* no request has been completed yet
NoRef == [none |-> TRUE, inputs |-> <<>>, forecast |-> NoForecast,
          results |-> <<>>, between |-> FALSE]

\* characters of the enumerated existing-crops strings
Alphabet == {"5", "-", ":", ";", " "}

AllStrings == UNION {[1..n -> Alphabet] : n \in 0..MaxStrLen}

\* a request whose existing-crops field is any string over Alphabet
InitParse ==
    /\ pc = "request"
    /\ existing_crops_str \in AllStrings
    /\ garden_size = PyFloat(0)
    /\ num_people = 0
    /\ volume_goal = PyFloat(0)
    /\ calorie_goal = PyFloat(0)
    /\ additional_needs = <<>>
    /\ lat = PyFloat(0)
    /\ lon = PyFloat(0)
    /\ api_key = NoneVal
    /\ existing_crops = <<>>
    /\ free_space = PyInt(0)
    /\ recommended = <<>>
    /\ idx = 0
    /\ space_left = PyInt(0)
    /\ final_crops = <<>>
    /\ schedule = <<>>
    /\ forecast = NoForecast
    /\ diagram = <<>>
    /\ runs = 1
    /\ ref = NoRef

\* existing_crops = parse_existing_crops(existing_crops_str)
ParseExisting ==
    /\ pc = "request"
    /\ pc' = "parsed"
    /\ existing_crops' = parse_existing_crops(existing_crops_str)
    /\ UNCHANGED <<server, inputs, free_space, recommended, idx, space_left,
                   final_crops, schedule, forecast, diagram>>

NextParse == ParseExisting

SpecParse == InitParse /\ [][NextParse]_vars

\* existing-crops fields of the pipeline runs
CropStrings ==
    {<<>>,
     <<"T",":","5",":","4">>,
     <<"T",":","5","0",":","1","5",";","L",":","2","5",":","2">>,
     <<"T",":","-","5",":","4">>,
     <<"T",":","a","b","c",":","4">>,
     <<"T",":","5",":","n","a","n">>,
     <<"T",":","1","2",":","1","2",";","K",":","5">>,
     <<"T",":","i","n","f",":","1">>,
     <<"T",":","-","i","n","f",":","1">>}

\* additional_needs texts of the pipeline runs
NeedsTexts ==
    {<<>>,
     <<"n","e","e","d"," ","L","E","A","F","Y"," ","G","r","e","e","n","s">>,
     <<"l","e","a","f","y">>}

\* goals of the stored ProduceRequest: below, at and above the thresholds
PeopleCounts == {0, 50}

VolumeGoals == {PyFloat(0), PyFloat(10), PyFloat(11)}

CalorieGoals == {PyFloat(0), PyFloat(2000), PyFloat(2500)}

\* garden sizes beyond MaxGarden
BigGardens == {60, 100}

GardenSizes ==
    {PyFloat(n) : n \in (0..MaxGarden) \cup BigGardens} \cup {PosInf, NaN}

\* answers of the weather service: a failure, or daily records (dt in seconds)
WeatherResponses ==
    {[ok |-> FALSE, daily |-> <<>>],
     [ok |-> TRUE, daily |-> <<>>],
     [ok |-> TRUE,
      daily |-> <<[dt |-> DaysFromCivil(2025, 3, 8) * 86400 + 43200,
                   temp |-> PyFloat(11), description |-> <<>>],
                  [dt |-> DaysFromCivil(2025, 3, 1) * 86400 + 43200,
                   temp |-> PyFloat(12), description |-> <<"s","u","n">>],
                  [dt |-> DaysFromCivil(2025, 3, 1) * 86400 + 43200,
                   temp |-> PyFloat(9), description |-> <<"r","a","i","n">>]>>],
     [ok |-> TRUE,
      daily |-> <<[dt |-> DaysFromCivil(2026, 11, 4) * 86400 + 43200,
                   temp |-> PyFloat(7), description |-> <<"r","a","i","n">>]>>]}

\* a request of the admin form together with the stored ProduceRequest
Init ==
    /\ pc = "request"
    /\ existing_crops_str \in CropStrings
    /\ garden_size \in GardenSizes
    /\ num_people \in PeopleCounts
    /\ volume_goal \in VolumeGoals
    /\ calorie_goal \in CalorieGoals
    /\ additional_needs \in NeedsTexts
    /\ lat = PyFloat(40)
    /\ lon = PyFloat(0)
    /\ api_key \in {NoneVal, Str(<<>>), Str(<<"k">>)}
    /\ existing_crops = <<>>
    /\ free_space = PyInt(0)
    /\ recommended = <<>>
    /\ idx = 0
    /\ space_left = PyInt(0)
    /\ final_crops = <<>>
    /\ schedule = <<>>
    /\ forecast = NoForecast
    /\ diagram = <<>>
    /\ runs = 1
    /\ ref = NoRef

\* used_space, free_space of generate_schedule_for_request
ComputeFreeSpace ==
    /\ pc = "parsed"
    /\ pc' = "free"
    /\ free_space' = FreeSpace(garden_size, existing_crops)
    /\ UNCHANGED <<server, inputs, existing_crops, recommended, idx, space_left,
                   final_crops, schedule, forecast, diagram>>

\* final_crops is a list that outlives the call
SelectCandidates_keepfinal ==
    /\ pc = "free"
    /\ pc' = "packing"
    /\ recommended' = Candidates(num_people, volume_goal, calorie_goal,
                                 additional_needs)
    /\ space_left' = free_space
    /\ idx' = 0
    /\ UNCHANGED <<server, inputs, existing_crops, free_space, schedule, forecast,
                   diagram, final_crops>>

\* recommend_crops up to the packing loop
SelectCandidates ==
    /\ pc = "free"
    /\ pc' = "packing"
    /\ recommended' = Candidates(num_people, volume_goal, calorie_goal,
                                 additional_needs)
    /\ final_crops' = <<>>
    /\ space_left' = free_space
    /\ idx' = 0
    /\ UNCHANGED <<server, inputs, existing_crops, free_space, schedule, forecast,
                   diagram>>

\* one iteration of the packing loop
PackStep ==
    /\ pc = "packing"
    /\ idx < Len(recommended)
    /\ LET crop == recommended[idx + 1]
           req == PyInt(crop_space_requirements(crop))
       IN  IF Fits(req, space_left)
           THEN /\ final_crops' = Append(final_crops, crop)
                /\ space_left' = FSub(space_left, req)
           ELSE UNCHANGED <<final_crops, space_left>>
    /\ idx' = idx + 1
    /\ UNCHANGED <<server, pc, inputs, existing_crops, free_space, recommended, schedule,
                   forecast, diagram>>

\* return final_crops
ReturnRecommended ==
    /\ pc = "packing"
    /\ idx = Len(recommended)
    /\ pc' = "recommended"
    /\ UNCHANGED <<server, inputs, existing_crops, free_space, recommended, idx,
                   space_left, final_crops, schedule, forecast, diagram>>

\* diagram = generate_planting_diagram(existing_crops, recommended_crops, garden_size)
GenerateDiagram ==
    /\ pc = "recommended"
    /\ pc' = "diagrammed"
    /\ diagram' = generate_planting_diagram(existing_crops, final_crops, garden_size)
    /\ UNCHANGED <<server, inputs, existing_crops, free_space, recommended, idx,
                   space_left, final_crops, schedule, forecast>>

\* schedule = generate_schedule(existing_crops, recommended_crops, lat, lon, api_key)
GenerateSchedule ==
    /\ pc = "diagrammed"
    /\ \E response \in WeatherResponses :
         LET r == generate_schedule(existing_crops, final_crops, lat, lon,
                                    api_key, response)
         IN  /\ forecast' = r.forecast
             /\ IF r.raised
                THEN pc' = "error" /\ UNCHANGED schedule
                ELSE pc' = "done" /\ schedule' = r.value
    /\ UNCHANGED <<server, inputs, existing_crops, free_space, recommended, idx,
                   space_left, final_crops, diagram>>

Next ==
    \/ ParseExisting
    \/ ComputeFreeSpace
    \/ SelectCandidates
    \/ PackStep
    \/ ReturnRecommended
    \/ GenerateDiagram
    \/ GenerateSchedule

Spec == Init /\ [][Next]_vars

-----------------------------------------------------------------------------
(* The server process: one request after the other.  What a request left   *)
(* in memory is still there when the next one arrives.                     *)

\* what the request hands to the template, or the exception
Results ==
    [pc |-> pc, existing_crops |-> existing_crops, final_crops |-> final_crops,
     diagram |-> diagram, schedule |-> IF pc = "done" THEN schedule ELSE <<>>]

\* existing-crops fields of the requests of one server process
RunCropStrings ==
    {<<>>,
     <<"T",":","5",":","4">>,
     <<"T",":","5",":","n","a","n">>}

InitRuns ==
    /\ pc = "request"
    /\ existing_crops_str \in RunCropStrings
    /\ garden_size = PyFloat(21)
    /\ num_people = 0
    /\ volume_goal = PyFloat(0)
    /\ calorie_goal \in {PyFloat(0), PyFloat(2500)}
    /\ additional_needs = <<>>
    /\ lat = PyFloat(40)
    /\ lon = PyFloat(0)
    /\ api_key \in {NoneVal, Str(<<"k">>)}
    /\ existing_crops = <<>>
    /\ free_space = PyInt(0)
    /\ recommended = <<>>
    /\ idx = 0
    /\ space_left = PyInt(0)
    /\ final_crops = <<>>
    /\ schedule = <<>>
    /\ forecast = NoForecast
    /\ diagram = <<>>
    /\ runs = 1
    /\ ref = NoRef

\* the next POST to /admin/generate_schedule/<id> arrives
NextRequest ==
    /\ pc \in {"done", "error"}
    /\ runs < MaxRuns
    /\ runs' = runs + 1
    /\ ref' = IF ref.none
              THEN [none |-> FALSE, inputs |-> inputs, forecast |-> forecast,
                    results |-> Results, between |-> FALSE]
              ELSE [ref EXCEPT !.between = @ \/ inputs # ref.inputs]
    /\ pc' = "request"
    /\ existing_crops_str' \in RunCropStrings
    /\ calorie_goal' \in {PyFloat(0), PyFloat(2500)}
    /\ api_key' \in {NoneVal, Str(<<"k">>)}
    /\ UNCHANGED <<garden_size, num_people, volume_goal, additional_needs, lat,
                   lon, existing_crops, free_space, recommended, idx,
                   space_left, final_crops, schedule, forecast, diagram>>

NextRuns ==
    \/ ParseExisting
    \/ ComputeFreeSpace
    \/ SelectCandidates
    \/ PackStep
    \/ ReturnRecommended
    \/ GenerateDiagram
    \/ GenerateSchedule
    \/ NextRequest

SpecRuns == InitRuns /\ [][NextRuns]_vars

-----------------------------------------------------------------------------
(* Properties of parse_existing_crops, checked under SpecParse *)

\* positions just outside the ';'-separated items of s
ItemCuts(s) == {0, Len(s) + 1} \cup {i \in 1..Len(s) : s[i] = ";"}

NthOf(S, n) == CHOOSE p \in S : Cardinality({q \in S : q < p}) = n - 1

\* the first and last position of item j of s
ItemLo(s, j) == NthOf(ItemCuts(s), j) + 1

ItemHi(s, j) == NthOf(ItemCuts(s), j + 1) - 1

ItemColons(s, j) == {i \in ItemLo(s, j)..ItemHi(s, j) : s[i] = ":"}

\* the items with exactly 3 fields, by their number
GoodItems(s) ==
    {j \in 1..(Cardinality(ItemCuts(s)) - 1) : Cardinality(ItemColons(s, j)) = 2}

\* the text of field f (1, 2, 3) of the 3-field item j
FieldText(s, j, f) ==
    LET c1 == SetMin(ItemColons(s, j))
        c2 == SetMax(ItemColons(s, j))
    IN  IF f = 1 THEN SubSeq(s, ItemLo(s, j), c1 - 1)
        ELSE IF f = 2 THEN SubSeq(s, c1 + 1, c2 - 1)
        ELSE SubSeq(s, c2 + 1, ItemHi(s, j))

\* C5: parse_existing_crops yields exactly one entry per item with exactly 3
\* fields and none for any other item, in the order of the items; an empty or
\* whitespace-only input yields the empty sequence.
C5_OneEntryPerThreeFieldItem ==
    pc = "parsed" =>
        LET s == existing_crops_str
            good == GoodItems(s)
        IN  /\ Len(existing_crops) = Cardinality(good)
            /\ \A n \in 1..Len(existing_crops) :
                   existing_crops[n].name = Strip(FieldText(s, NthOf(good, n), 1))
            /\ (\A i \in 1..Len(s) : s[i] \in Whitespace) => existing_crops = <<>>

\* two entries with different names, in the order of their items
C5_Witness ==
    /\ pc = "parsed"
    /\ Len(existing_crops) = 2
    /\ existing_crops[1].name = <<"5">>
    /\ existing_crops[2].name = <<>>

IsZero(x) == IsFin(x) /\ x.v = 0

\* C6: a 3-field item whose area or weeks field is not a number is kept, with
\* its name and with both area and weeksGrown equal to 0.
C6_BothCoercedToZero ==
    pc = "parsed" =>
        LET s == existing_crops_str
            good == GoodItems(s)
        IN  \A n \in 1..Cardinality(good) :
                LET j == NthOf(good, n)
                IN  (~float(FieldText(s, j, 2)).ok \/ ~float(FieldText(s, j, 3)).ok)
                    => /\ n <= Len(existing_crops)
                       /\ existing_crops[n].name = Strip(FieldText(s, j, 1))
                       /\ IsZero(existing_crops[n].space)
                       /\ IsZero(existing_crops[n].weeks_grown)

\* an entry whose area is a valid non-zero number and whose weeks are not
C6_Witness ==
    /\ pc = "parsed"
    /\ \E n \in 1..Len(existing_crops) :
          LET j == NthOf(GoodItems(existing_crops_str), n)
              area == float(FieldText(existing_crops_str, j, 2))
          IN  /\ area.ok
              /\ ~IsZero(area.val)
              /\ ~float(FieldText(existing_crops_str, j, 3)).ok
              /\ IsZero(existing_crops[n].space)

\* C7: every entry produced by parse_existing_crops has area >= 0 and
\* weeksGrown >= 0.
C7_EntriesNonNegative ==
    pc = "parsed" =>
        \A n \in 1..Len(existing_crops) :
            /\ FLe(PyInt(0), existing_crops[n].space)
            /\ FLe(PyInt(0), existing_crops[n].weeks_grown)

-----------------------------------------------------------------------------
(* Properties of the pipeline, checked under Spec *)

Packed == pc \in {"packing", "recommended", "diagrammed", "done", "error"}

Recommended == pc \in {"recommended", "diagrammed", "done", "error"}

RECURSIVE SumReq(_)
\* total static space requirement of a list of crops
SumReq(crops) ==
    IF crops = <<>> THEN 0
    ELSE crop_space_requirements(Head(crops)) + SumReq(Tail(crops))

\* C1: the space requirements of the accepted crops sum to at most
\* max(0, gardenSize - sum of existing-crop areas), after every step of the
\* packing loop, and space_left never goes below 0.
C1_PackedWithinFreeSpace ==
    Packed =>
        LET remaining == FSub(garden_size, SumSpace(existing_crops))
            budget == IF FGt(remaining, PyInt(0)) THEN remaining ELSE PyInt(0)
        IN  /\ FLe(PyInt(0), space_left)
            /\ FLe(PyInt(SumReq(final_crops)), budget)

\* beside an existing crop, the accepted crops fill the free space exactly
\* and a candidate was refused
C1_Witness ==
    /\ pc = "recommended"
    /\ existing_crops # <<>>
    /\ final_crops # <<>>
    /\ Len(final_crops) < Len(recommended)
    /\ IsZero(space_left)

\* candidate j was accepted (the names of a candidate list are distinct)
Accepted(j) == \E n \in 1..Len(final_crops) : final_crops[n] = recommended[j]

RECURSIVE SpentOn(_)
\* what the accepted candidates among the positions J require in total
SpentOn(J) ==
    IF J = {} THEN 0
    ELSE LET j == SetMax(J)
         IN  (IF Accepted(j) THEN crop_space_requirements(recommended[j]) ELSE 0)
             + SpentOn(J \ {j})

\* C2: greedy first-fit in candidate order: a scanned candidate is accepted
\* iff its requirement is <= the space remaining when it is scanned, which is
\* the free space minus the requirements of the candidates accepted before it;
\* a skipped one consumes nothing, scanning goes on to the end of the list and
\* the result is the accepted crops in candidate order.
C2_GreedyFirstFit ==
    Packed =>
        LET acc == {j \in 1..Len(recommended) : Accepted(j)}
        IN  /\ idx <= Len(recommended)
            /\ Recommended => idx = Len(recommended)
            /\ \A j \in 1..idx :
                   Accepted(j) <=>
                       FLe(PyInt(crop_space_requirements(recommended[j])),
                           FSub(free_space, PyInt(SpentOn(1..(j - 1)))))
            /\ \A j \in (idx + 1)..Len(recommended) : ~Accepted(j)
            /\ Len(final_crops) = Cardinality(acc)
            /\ \A n \in 1..Len(final_crops) : final_crops[n] = recommended[NthOf(acc, n)]
            /\ space_left = FSub(free_space, PyInt(SpentOn(1..idx)))

\* a candidate was skipped and a later, smaller one accepted
C2_Witness ==
    /\ pc = "recommended"
    /\ \E j \in 1..Len(recommended) : \E later \in (j + 1)..Len(recommended) :
          ~Accepted(j) /\ Accepted(later)

\* c is the letter l in either case
SameLetter(c, l) ==
    c = l \/ \E n \in 1..26 : LowerCase[n] = l /\ UpperCase[n] = c

MentionsLeafyGreens(text) ==
    \E i \in 0..(Len(text) - 12) :
        \A n \in 1..12 : SameLetter(text[i + n], LeafyGreens[n])

\* C3: the candidate list is [Potatoes, Corn] if calorieGoal > 2000, then
\* [Zucchini, Tomatoes, Bell Peppers] if volumeGoal > 10, then [Lettuce, Kale]
\* if additionalNeeds contains "leafy greens" in any case; it is
\* [Tomatoes, Carrots, Onions] iff no rule fired; with free space >= 50 every
\* candidate is returned; numPeople plays no part.
C3_CandidateRules ==
    Packed =>
        LET cal == IsFin(calorie_goal) /\ calorie_goal.v > 2000
            vol == IsFin(volume_goal) /\ volume_goal.v > 10
            leafy == MentionsLeafyGreens(additional_needs)
            fired == (IF cal THEN <<Potatoes, Corn>> ELSE <<>>)
                     \o (IF vol THEN <<Zucchini, Tomatoes, BellPeppers>> ELSE <<>>)
                     \o (IF leafy THEN <<Lettuce, Kale>> ELSE <<>>)
        IN  /\ (cal \/ vol \/ leafy) => recommended = fired
            /\ (recommended = <<Tomatoes, Carrots, Onions>>)
                   <=> ~(cal \/ vol \/ leafy)
            /\ (Recommended /\ FLe(PyInt(50), free_space))
                   => final_crops = recommended

\* a calorie-only request with 100 sq ft free returns [Potatoes, Corn]
C3_Witness ==
    /\ pc = "recommended"
    /\ calorie_goal = PyFloat(2500)
    /\ volume_goal = PyFloat(0)
    /\ additional_needs = <<>>
    /\ num_people = 50
    /\ free_space = PyFloat(100)
    /\ final_crops = <<Potatoes, Corn>>

\* C4: with free space 0 nothing is recommended, whatever the goals; in the
\* pipeline that is whenever the existing crops' total area is >= the garden
\* size.
C4_NoSpaceNoCrops ==
    Recommended =>
        /\ IsZero(free_space) => final_crops = <<>>
        /\ FLe(garden_size, SumSpace(existing_crops)) => final_crops = <<>>

\* a non-empty garden fully used by existing crops, every rule fired
C4_Witness ==
    /\ pc = "recommended"
    /\ FGt(garden_size, PyInt(0))
    /\ FLe(garden_size, SumSpace(existing_crops))
    /\ Len(recommended) = 7
    /\ final_crops = <<>>

EndsWith(s, suffix) ==
    /\ Len(s) >= Len(suffix)
    /\ SubSeq(s, Len(s) - Len(suffix) + 1, Len(s)) = suffix

\* C8: the schedule has one entry per existing crop in input order, then one
\* entry per recommended crop in list order, and nothing else.
C8_ExistingThenNew ==
    pc = "done" =>
        LET n == Len(existing_crops)
            m == Len(final_crops)
        IN  /\ Len(schedule) = n + m
            /\ \A i \in 1..Len(schedule) :
                   IF i <= n
                   THEN /\ schedule[i].crop = existing_crops[i].name \o SuffixExisting
                        /\ ~EndsWith(schedule[i].crop, SuffixNew)
                   ELSE /\ schedule[i].crop = final_crops[i - n] \o SuffixNew
                        /\ ~EndsWith(schedule[i].crop, SuffixExisting)

\* two existing crops followed by at least two new ones
C8_Witness ==
    /\ pc = "done"
    /\ Len(existing_crops) = 2
    /\ Len(final_crops) >= 2
    /\ Len(schedule) = Len(existing_crops) + Len(final_crops)

\* 2025-03-01 + 7 * i days, i = 0, 1, ... (calendar dates)
PlantingDates ==
    <<<<"2","0","2","5","-","0","3","-","0","1">>,
      <<"2","0","2","5","-","0","3","-","0","8">>,
      <<"2","0","2","5","-","0","3","-","1","5">>,
      <<"2","0","2","5","-","0","3","-","2","2">>,
      <<"2","0","2","5","-","0","3","-","2","9">>,
      <<"2","0","2","5","-","0","4","-","0","5">>,
      <<"2","0","2","5","-","0","4","-","1","2">>,
      <<"2","0","2","5","-","0","4","-","1","9">>>>

\* 2025-03-01 + 7 * i + 70 days, i = 0, 1, ...
HarvestDates ==
    <<<<"2","0","2","5","-","0","5","-","1","0">>,
      <<"2","0","2","5","-","0","5","-","1","7">>,
      <<"2","0","2","5","-","0","5","-","2","4">>,
      <<"2","0","2","5","-","0","5","-","3","1">>,
      <<"2","0","2","5","-","0","6","-","0","7">>,
      <<"2","0","2","5","-","0","6","-","1","4">>,
      <<"2","0","2","5","-","0","6","-","2","1">>,
      <<"2","0","2","5","-","0","6","-","2","8">>>>

\* C9: the new crop at index i is planted on 2025-03-01 + 7 * i days and
\* harvested 70 days after its planting date, whatever its name and whatever
\* the existing crops.
C9_WeeklyPlantingTenWeekHarvest ==
    pc = "done" =>
        \A i \in 0..(Len(final_crops) - 1) :
            LET entry == schedule[Len(existing_crops) + i + 1]
            IN  /\ i + 1 <= Len(PlantingDates)
                /\ entry.planting_date = PlantingDates[i + 1]
                /\ entry.harvest_info = HarvestAround \o HarvestDates[i + 1]

\* seven new crops scheduled after an existing one
C9_Witness ==
    /\ pc = "done"
    /\ existing_crops # <<>>
    /\ Len(final_crops) = 7
    /\ schedule[Len(schedule)].planting_date = PlantingDates[7]

\* C10: an existing crop's entry reports max(0, 12 - weeksGrown) weeks
\* remaining: never negative, 0 from 12 weeks grown on.
C10_WeeksRemainingFloored ==
    pc = "done" =>
        \A i \in 1..Len(existing_crops) :
            LET w == existing_crops[i].weeks_grown
                shown == IF w.v >= 12 THEN <<"0">>
                         ELSE IF w.k = "int" THEN IntToStr(12 - w.v)
                         ELSE IntToStr(12 - w.v) \o <<".", "0">>
            IN  /\ schedule[i].harvest_info = ReadyInAbout \o shown \o MoreWeeks
                /\ shown[1] # "-"

\* a crop grown for 15 weeks is reported with 0 weeks remaining
C10_Witness ==
    /\ pc = "done"
    /\ \E i \in 1..Len(existing_crops) :
          /\ existing_crops[i].weeks_grown = PyFloat(15)
          /\ schedule[i].harvest_info = ReadyInAbout \o <<"0">> \o MoreWeeks

\* C11: an entry carries a weather note iff a credential and coordinates were
\* supplied and its planting-date string is the date of some forecast record;
\* entries of existing crops never carry one; without a credential
\* get_weather_forecast is not called and every note is empty; a forecast
\* without a matching date leaves the notes empty and raises nothing.
C11_NoteIffForecastDateMatches ==
    LET supplied == /\ ~api_key.none
                    /\ api_key.s # <<>>
                    /\ lat.k # "none"
                    /\ lon.k # "none"
    IN  /\ ~supplied => ~forecast.called
        /\ pc = "error" =>
               \/ \E i \in 1..Len(existing_crops) : ~IsFin(existing_crops[i].weeks_grown)
               \/ forecast.called /\ forecast.raised
        /\ pc = "done" =>
               /\ supplied => forecast.called /\ ~forecast.raised
               /\ \A n \in 1..Len(schedule) :
                      /\ schedule[n].weather_note # <<>>
                             <=> /\ supplied
                                 /\ \E i \in 1..Len(forecast.value) :
                                        forecast.value[i].date = schedule[n].planting_date
                      /\ n <= Len(existing_crops) => schedule[n].weather_note = <<>>

\* with a credential and a forecast, a new crop planted on a forecast date is
\* annotated, a later new crop and an existing crop are not
C11_Witness ==
    /\ pc = "done"
    /\ forecast.called
    /\ existing_crops # <<>>
    /\ schedule[1].weather_note = <<>>
    /\ \E n \in 1..Len(schedule) : schedule[n].weather_note = ForecastPrefix
    /\ schedule[Len(schedule)].weather_note = <<>>
    /\ Len(final_crops) >= 3

StartsWith(s, prefix) ==
    /\ Len(s) >= Len(prefix)
    /\ SubSeq(s, 1, Len(prefix)) = prefix

\* C12: the diagram's rows are numbered 1, 2, ..., n + m in order: rows 1..n
\* are the existing crops in input order with name and area, rows n+1..n+m
\* the recommended crops in list order with the name only; with m = 0 the
\* diagram states that no space is left and has no new-crops section, with
\* m > 0 it has the section and not that statement.
C12_RowsNumberedConsecutively ==
    pc = "diagrammed" =>
        LET lines == Split(diagram, "\n")
            rows == {l \in 1..Len(lines) : StartsWith(lines[l], RowPrefix)}
            n == Len(existing_crops)
            m == Len(final_crops)
            stated == \E l \in 1..Len(lines) : lines[l] = NoSpaceLeft
            section == \E l \in 1..Len(lines) : lines[l] = NewCropsHeading
        IN  /\ Cardinality(rows) = n + m
            /\ \A r \in 1..Cardinality(rows) :
                   LET line == lines[NthOf(rows, r)]
                   IN  IF r <= n
                       THEN line = RowPrefix \o IntToStr(r) \o RowExisting
                                   \o existing_crops[r].name \o Occupying
                                   \o NumToStr(existing_crops[r].space) \o SqFt
                       ELSE line = RowPrefix \o IntToStr(r) \o RowNew
                                   \o final_crops[r - n]
            /\ m = 0 => stated /\ ~section
            /\ m > 0 => section /\ ~stated

\* two existing crops and at least two new ones in one diagram
C12_Witness ==
    /\ pc = "diagrammed"
    /\ Len(existing_crops) = 2
    /\ Len(final_crops) >= 2

NoCredential == api_key.none \/ api_key.s = <<>>

\* C14: without a weather credential, parse_existing_crops, recommend_crops,
\* generate_planting_diagram and generate_schedule return for every input,
\* entries with nan or inf fields included: no request ends in an exception.
C14_CoreFunctionsNeverRaise == NoCredential => pc # "error"

HasDuplicate(list) ==
    \E i \in 1..Len(list) : \E j \in (i + 1)..Len(list) : list[i] = list[j]

\* C15 as claimed: for the request at hand there are goals (calorieGoal,
\* volumeGoal, additionalNeeds) for which the candidate list names a crop more
\* than once.
C15_DuplicateCandidatePossible ==
    pc = "request" =>
        \E volume \in VolumeGoals : \E calorie \in CalorieGoals :
            \E needs \in NeedsTexts :
                HasDuplicate(Candidates(num_people, volume, calorie, needs))

\* C15, amended: no candidate list names a crop twice, so the packing loop
\* accepts no crop twice.
C15_CandidatesDistinct ==
    Packed => ~HasDuplicate(recommended) /\ ~HasDuplicate(final_crops)

\* every rule fired and every candidate was accepted: seven distinct crops,
\* Tomatoes among them
C15_Witness ==
    /\ pc = "recommended"
    /\ Len(recommended) = 7
    /\ final_crops = recommended
    /\ \E i \in 1..Len(recommended) : recommended[i] = Tomatoes

-----------------------------------------------------------------------------
(* Properties of a sequence of requests, checked under SpecRuns *)

\* a completed request with the inputs and the forecast of the reference one
SameAsReference ==
    /\ pc \in {"done", "error"}
    /\ ~ref.none
    /\ inputs = ref.inputs
    /\ forecast = ref.forecast

\* C13: requests with identical inputs and an identical or absent forecast
\* give identical recommended lists, diagrams and schedules (or the same
\* exception), whatever requests were handled in between; the list of
\* existing crops and the recommended list are not modified once returned.
C13_SameInputsSameResults ==
    /\ [](SameAsReference => Results = ref.results)
    /\ [][/\ (pc # "request" /\ pc' # "request")
                 => existing_crops' = existing_crops
          /\ (pc \in {"recommended", "diagrammed"} /\ pc' # "request")
                 => final_crops' = final_crops]_vars

\* the third request repeats the first, with its forecast, after a different
\* one
C13_Witness ==
    /\ SameAsReference
    /\ runs = 3
    /\ ref.between
    /\ forecast.called
    /\ pc = "done"
    /\ final_crops # <<>>
    /\ \E n \in 1..Len(schedule) : schedule[n].weather_note # <<>>

====
